---- MODULE Spec2Model ----
(***************************************************************************)
(* fix_brackets.py: a regex-driven rewriter of bracketed memory operands   *)
(* in assembly text (fix_bracket_syntax), and the command-line file loop   *)
(* around it (main).                                                       *)
(*                                                                         *)
(* Text is a sequence of one-character strings.  The four re.sub calls are *)
(* modelled by matchers that walk the text the way the regex engine does,  *)
(* and by the replacement templates applied to the captured groups.        *)
(***************************************************************************)
EXTENDS Integers, Sequences, FiniteSets, TLC

VARIABLES
    lines,      \* rewriter harness: the input, a sequence of line descriptors
    content,    \* rewriter harness: the text handed to fix_bracket_syntax
    fixed,      \* rewriter harness: the text it returned
    phase,      \* rewriter harness: "input", "rewritten", "rerun"
    argv,       \* main: sys.argv[1:]
    fs,         \* main: the filesystem, path -> text or Missing
    i,          \* main: position of the for loop in argv
    stdout,     \* main: the status lines printed so far
    writes,     \* main: the paths opened with mode 'w', in order
    exitcode,   \* main: the exit status, -1 while running
    pc          \* main: "start", "loop", "exited"

vars == <<lines, content, fixed, phase, argv, fs, i, stdout, writes, exitcode, pc>>

rwVars == <<lines, content, fixed, phase>>
mainVars == <<argv, fs, i, stdout, writes, exitcode, pc>>

(***************************************************************************)
(* Character classes of Python's re module (str patterns, ASCII part).     *)
(***************************************************************************)
Upper == {"A","B","C","D","E","F","G","H","I","J","K","L","M",
          "N","O","P","Q","R","S","T","U","V","W","X","Y","Z"}
Lower == {"a","b","c","d","e","f","g","h","i","j","k","l","m",
          "n","o","p","q","r","s","t","u","v","w","x","y","z"}
Digit == {"0","1","2","3","4","5","6","7","8","9"}
\* \s (the ASCII whitespace a TLA+ string can spell; \v is left out)
Space == {" ", "\t", "\n", "\r", "\f"}
\* [a-zA-Z_]
IdentStart == Upper \cup Lower \cup {"_"}
\* [a-zA-Z0-9_], which is also \w
IdentChar == IdentStart \cup Digit
\* [+\-]
OpChar == {"+", "-"}

CharAt(s, j, c) == j >= 1 /\ j <= Len(s) /\ s[j] = c
ClassAt(s, j, cls) == j >= 1 /\ j <= Len(s) /\ s[j] \in cls

\* \b at the position before s[j] (j = Len(s)+1 is the end of the text)
AtBoundary(s, j) == ClassAt(s, j - 1, IdentChar) # ClassAt(s, j, IdentChar)

\* x? : the position after an optional character
Opt(s, j, c) == IF CharAt(s, j, c) THEN j + 1 ELSE j

\* LDA?W? (allowB = FALSE) or LDA?W?B? (allowB = TRUE) at j: the position after
\* it, 0 when "LD" is not there.  Each optional letter is taken when present:
\* the mnemonic is followed by \s+, so giving a letter back can never match.
MnemonicEnd(s, j, allowB) ==
    IF CharAt(s, j, "L") /\ CharAt(s, j + 1, "D")
    THEN LET a == Opt(s, j + 2, "A")
             w == Opt(s, a, "W")
         IN IF allowB THEN Opt(s, w, "B") ELSE w
    ELSE 0

\* the position after the longest run of characters of cls starting at j
RECURSIVE SkipClass(_, _, _)
SkipClass(s, j, cls) ==
    IF ClassAt(s, j, cls) THEN SkipClass(s, j + 1, cls) ELSE j

\* the position of the first "]" at or after j, 0 when there is none
RECURSIVE FindClose(_, _)
FindClose(s, j) ==
    IF j > Len(s) THEN 0
    ELSE IF s[j] = "]" THEN j
    ELSE FindClose(s, j + 1)

\* a pattern that takes "(" for the opening bracket as well
IsOpenAtLoose(s, j) == CharAt(s, j, "[") \/ CharAt(s, j, "(")

\* \[ at j
IsOpenAt(s, j) == CharAt(s, j, "[")

\* a character class [+] that forgets the minus sign
HasInnerPlus(s, from, to) ==
    \E p \in (from + 1)..(to - 1) : s[p] = "+"

\* [^\]]+[+\-][^\]]+ over s[from..to]: an operator with at least one
\* character on each side
HasInnerOp(s, from, to) ==
    \E p \in (from + 1)..(to - 1) : s[p] \in OpChar

NoMatch == [ok |-> FALSE, end |-> 0, g1 |-> <<>>, g2 |-> <<>>, g3 |-> <<>>]

\* an identifier pattern [a-zA-Z0-9_]+ that lets a digit lead
IdentOperandDigits(s, b) ==
    IF IsOpenAt(s, b) /\ ClassAt(s, b + 1, IdentChar)
    THEN LET e == SkipClass(s, b + 1, IdentChar)
         IN IF CharAt(s, e, "]") THEN e ELSE 0
    ELSE 0

\* \[([a-zA-Z_][a-zA-Z0-9_]*)\] at b: the position of the closing bracket, 0
\* when it does not match
IdentOperand(s, b) ==
    IF IsOpenAt(s, b) /\ ClassAt(s, b + 1, IdentStart)
    THEN LET e == SkipClass(s, b + 1, IdentChar)
         IN IF CharAt(s, e, "]") THEN e ELSE 0
    ELSE 0

\* \[([^\]]+[+\-][^\]]+)\] at b: the position of the closing bracket, 0 when
\* it does not match.  [^\]] cannot cross a "]", so the content ends at the
\* first "]" after b.
ExprOperand(s, b) ==
    IF IsOpenAt(s, b)
    THEN LET e == FindClose(s, b + 1)
         IN IF e # 0 /\ HasInnerOp(s, b + 1, e - 1) THEN e ELSE 0
    ELSE 0

\* <mnemonic>\s+([A-Z]{2}),\s*<operand> at j, operand "ident" or "expr"
MatchLoad(s, j, allowB, operand) ==
    LET m == MnemonicEnd(s, j, allowB)
        r == SkipClass(s, m, Space)
        b == SkipClass(s, r + 3, Space)
        e == IF operand = "ident" THEN IdentOperand(s, b) ELSE ExprOperand(s, b)
    IN IF /\ AtBoundary(s, j)
          /\ m # 0
          /\ r > m
          /\ ClassAt(s, r, Upper)
          /\ ClassAt(s, r + 1, Upper)
          /\ CharAt(s, r + 2, ",")
          /\ e # 0
       THEN [ok |-> TRUE, end |-> e + 1,
             g1 |-> SubSeq(s, j, m - 1),
             g2 |-> SubSeq(s, r, r + 1),
             g3 |-> SubSeq(s, b + 1, e - 1)]
       ELSE NoMatch

\* <mnemonic>\s+<operand>,\s*([A-Z]{2}) at j
MatchStore(s, j, operand) ==
    LET m == MnemonicEnd(s, j, TRUE)
        b == SkipClass(s, m, Space)
        e == IF operand = "ident" THEN IdentOperand(s, b) ELSE ExprOperand(s, b)
        r == SkipClass(s, e + 2, Space)
    IN IF /\ AtBoundary(s, j)
          /\ m # 0
          /\ b > m
          /\ e # 0
          /\ CharAt(s, e + 1, ",")
          /\ ClassAt(s, r, Upper)
          /\ ClassAt(s, r + 1, Upper)
       THEN [ok |-> TRUE, end |-> r + 2,
             g1 |-> SubSeq(s, j, m - 1),
             g2 |-> SubSeq(s, b + 1, e - 1),
             g3 |-> SubSeq(s, r, r + 1)]
       ELSE NoMatch

\* the four patterns, tried at position j
Match(rule, s, j) ==
    CASE rule = 1 -> MatchLoad(s, j, FALSE, "ident")
      [] rule = 2 -> MatchLoad(s, j, TRUE, "expr")
      [] rule = 3 -> MatchStore(s, j, "ident")
      [] rule = 4 -> MatchStore(s, j, "expr")

LDAtext == <<"L", "D", "A">>

\* template 1 written like template 3, r'LDA\1 \2, \3'
Repl1Group1(m) == LDAtext \o m.g1 \o <<" ">> \o m.g2 \o <<",", " ">> \o m.g3
\* template 2 written like template 1, r'LDA\2 \2, (\3)'
Repl2Group2(m) == LDAtext \o m.g2 \o <<" ">> \o m.g2 \o <<",", " ", "(">> \o m.g3 \o <<")">>

\* r'LDA\2 \2, \3'
Repl1(m) == LDAtext \o m.g2 \o <<" ">> \o m.g2 \o <<",", " ">> \o m.g3
\* r'LDA\1 \2, (\3)'
Repl2(m) == LDAtext \o m.g1 \o <<" ">> \o m.g2 \o <<",", " ", "(">> \o m.g3 \o <<")">>
\* r'LDA\1 \2, \3'
Repl3(m) == LDAtext \o m.g1 \o <<" ">> \o m.g2 \o <<",", " ">> \o m.g3
\* r'LDA\1 (\2), \3'
Repl4(m) == LDAtext \o m.g1 \o <<" ", "(">> \o m.g2 \o <<")", ",", " ">> \o m.g3

Repl(rule, m) ==
    CASE rule = 1 -> Repl1(m)
      [] rule = 2 -> Repl2(m)
      [] rule = 3 -> Repl3(m)
      [] rule = 4 -> Repl4(m)

\* re.sub(pattern, template, s): every non-overlapping match, leftmost first
RECURSIVE SubFrom(_, _, _, _)
SubFrom(rule, s, j, acc) ==
    IF j > Len(s) THEN acc
    ELSE LET m == Match(rule, s, j)
         IN IF m.ok
            THEN SubFrom(rule, s, m.end, acc \o Repl(rule, m))
            ELSE SubFrom(rule, s, j + 1, Append(acc, s[j]))

\* re.sub with count=1: the first match only
RECURSIVE SubFirst(_, _, _, _)
SubFirst(rule, s, j, acc) ==
    IF j > Len(s) THEN acc
    ELSE LET m == Match(rule, s, j)
         IN IF m.ok
            THEN acc \o Repl(rule, m) \o SubSeq(s, m.end, Len(s))
            ELSE SubFirst(rule, s, j + 1, Append(acc, s[j]))

ReSubFirst(rule, s) == SubFirst(rule, s, 1, <<>>)

ReSub(rule, s) == SubFrom(rule, s, 1, <<>>)

fix_bracket_syntax(s) == ReSub(4, ReSub(3, ReSub(2, ReSub(1, s))))

(***************************************************************************)
(* Inputs of the rewriter: lines of assembly text, described by their      *)
(* parts so that a property can speak of the mnemonic, the register and    *)
(* the bracket content of the line it was rendered from.                   *)
(***************************************************************************)
MaxContentLen == 3
MaxLines == 3

LD == <<"L", "D">>
LDA == <<"L", "D", "A">>
LDAB == <<"L", "D", "A", "B">>
LDAW == <<"L", "D", "A", "W">>
\* the mnemonics the module docstring and the pattern comments name
Mnemonics == {LD, LDA, LDAB, LDAW}

AB == <<"A", "B">>
CD == <<"C", "D">>
EF == <<"E", "F">>
Regs == {AB, LD}

SP == <<" ">>
NL == <<"\n">>

ContentChars == {"a", "4", "+", "-", "*", " "}
Contents == UNION {[1..n -> ContentChars] : n \in 0..MaxContentLen}

Line(kind, m, w1, r, w2, o, c, cl) ==
    [kind |-> kind, m |-> m, w1 |-> w1, r |-> r, w2 |-> w2, o |-> o, c |-> c, cl |-> cl]
Load(m, r, c) == Line("load", m, SP, r, SP, <<"[">>, c, <<"]">>)
Store(m, c, r) == Line("store", m, SP, r, SP, <<"[">>, c, <<"]">>)
Plain(t) == Line("plain", <<>>, <<>>, <<>>, <<>>, <<>>, t, <<>>)

\* the text of a line: 'M R, [C]', 'M [C], R', or the plain text
Render(d) ==
    CASE d.kind = "load" -> d.m \o d.w1 \o d.r \o <<",">> \o d.w2 \o d.o \o d.c \o d.cl
      [] d.kind = "store" -> d.m \o d.w1 \o d.o \o d.c \o d.cl \o <<",">> \o d.w2 \o d.r
      [] d.kind = "plain" -> d.c

\* texts joined by newlines
RECURSIVE JoinTexts(_)
JoinTexts(ts) ==
    IF Len(ts) = 0 THEN <<>>
    ELSE IF Len(ts) = 1 THEN ts[1]
    ELSE ts[1] \o NL \o JoinTexts(Tail(ts))

\* the lines of a file, joined by newlines
Join(ls) == JoinTexts([k \in 1..Len(ls) |-> Render(ls[k])])

foo == <<"f", "o", "o">>
dest == <<"d", "e", "s", "t">>
labelPlus4 == <<"l", "a", "b", "e", "l", " ", "+", " ", "4">>
bufPlus2 == <<"b", "u", "f", " ", "+", " ", "2">>
aPlus4 == <<"a", "+", "4">>
\* 'x-LD AB, [foo': a bracket content that holds a bracket construct itself
nested == <<"x", "-">> \o LD \o SP \o AB \o <<",", " ", "[">> \o foo

\* every load and store of the mnemonic family over the short bracket contents
Bracketed ==
    {Load(m, r, c) : m \in Mnemonics, r \in Regs, c \in Contents}
    \cup {Store(m, c, r) : m \in Mnemonics, r \in Regs, c \in Contents}

\* the same shapes with parentheses, a mismatched pair, or no delimiters
Unbracketed ==
    {Line(k, m, SP, AB, SP, oc[1], c, oc[2]) :
        k \in {"load", "store"}, m \in Mnemonics, c \in {<<"a">>, aPlus4},
        oc \in {<< <<"(">>, <<")">> >>, << <<"(">>, <<"]">> >>, << <<>>, <<>> >>}}

\* the constructs of the docstring and of the pattern comments, and odd spacing
Examples ==
    {Load(LD, AB, foo), Load(LD, AB, labelPlus4), Store(LD, dest, CD),
     Store(LDAW, bufPlus2, EF), Load(LD, AB, nested), Store(LD, nested, AB),
     Line("load", LD, <<" ", " ">>, AB, <<>>, <<"[">>, foo, <<"]">>),
     Line("load", LDAW, <<"\t">>, AB, NL, <<"[">>, aPlus4, <<"]">>),
     Line("store", LDAB, NL, CD, <<"\t", " ">>, <<"[">>, <<"_", "x", "1">>, <<"]">>),
     Plain(<<>>), Plain(LD), Plain(LD \o SP \o AB \o <<",">>),
     Plain(<<"X">> \o LD \o SP \o AB \o <<",", " ", "[">> \o foo \o <<"]">>),
     Plain(LD \o SP \o <<"[">> \o foo \o <<"]", ",", " ">> \o AB \o <<"C">>)}

SingleLines == Bracketed \cup Unbracketed \cup Examples

\* the lines multi-line texts are built from: one per rule, lines no rule
\* matches, and bracket-free lines
FileLines ==
    {Load(LD, AB, <<"a">>), Load(LDAB, AB, aPlus4), Store(LDAW, <<"a">>, AB),
     Store(LD, aPlus4, LD), Load(LDAB, AB, <<"a">>),
     Line("load", LD, SP, AB, SP, <<"(">>, <<"a">>, <<")">>),
     Plain(LD), Plain(LD \o SP \o AB \o <<",">>)}

Inputs ==
    {<<d>> : d \in SingleLines}
    \cup UNION {[1..n -> FileLines] : n \in 2..MaxLines}

(***************************************************************************)
(* The rewriter on its own: fix_bracket_syntax applied to an input, and    *)
(* applied once more to its own output.                                    *)
(***************************************************************************)
MainIdle ==
    /\ argv = <<>>
    /\ fs = <<>>
    /\ i = 1
    /\ stdout = <<>>
    /\ writes = <<>>
    /\ exitcode = -1
    /\ pc = "idle"

InitRewrite ==
    /\ lines \in Inputs
    /\ content = Join(lines)
    /\ fixed = <<>>
    /\ phase = "input"
    /\ MainIdle

Rewrite ==
    /\ phase = "input"
    /\ fixed' = fix_bracket_syntax(content)
    /\ phase' = "rewritten"
    /\ UNCHANGED <<lines, content, mainVars>>

Rerun ==
    /\ phase = "rewritten"
    /\ content' = fixed
    /\ fixed' = fix_bracket_syntax(fixed)
    /\ phase' = "rerun"
    /\ UNCHANGED <<lines, mainVars>>

NextRewrite == Rewrite \/ Rerun

SpecRewrite == InitRewrite /\ [][NextRewrite]_vars

(***************************************************************************)
(* main: the loop over the file arguments.  A path either does not exist   *)
(* or names a regular file that open() can read and write; one loop        *)
(* iteration is one step, main being single-threaded.                      *)
(***************************************************************************)
MaxArgs == 3

Paths == {"a.asm", "b.asm"}

Missing == [exists |-> FALSE, text |-> <<>>]
File(t) == [exists |-> TRUE, text |-> t]

FileTexts ==
    {Join(<<Load(LD, AB, foo)>>),
     LDA \o AB \o SP \o AB \o <<",", " ">> \o foo,
     Join(<<Store(LD, aPlus4, AB), Plain(LD), Load(LDAB, AB, foo)>>)}

Status(kind, path) == [kind |-> kind, path |-> path]

RewriteIdle ==
    /\ lines = <<>>
    /\ content = <<>>
    /\ fixed = <<>>
    /\ phase = "idle"

Init ==
    /\ argv \in UNION {[1..n -> Paths] : n \in 0..MaxArgs}
    /\ fs \in [Paths -> {Missing} \cup {File(t) : t \in FileTexts}]
    /\ i = 1
    /\ stdout = <<>>
    /\ writes = <<>>
    /\ exitcode = -1
    /\ pc = "start"
    /\ RewriteIdle

\* if len(sys.argv) < 2: print usage; sys.exit(1)
Usage ==
    /\ pc = "start"
    /\ Len(argv) < 1
    /\ stdout' = Append(stdout, Status("Usage", ""))
    /\ exitcode' = 1
    /\ pc' = "exited"
    /\ UNCHANGED <<argv, fs, i, writes, rwVars>>

EnterLoop ==
    /\ pc = "start"
    /\ ~(Len(argv) < 1)
    /\ pc' = "loop"
    /\ UNCHANGED <<argv, fs, i, stdout, writes, exitcode, rwVars>>

\* a missing path that ends the run: break and a failure status
SkipMissingStops ==
    /\ pc = "loop"
    /\ i <= Len(argv)
    /\ ~fs[argv[i]].exists
    /\ stdout' = Append(stdout, Status("Warning", argv[i]))
    /\ exitcode' = 1
    /\ pc' = "exited"
    /\ UNCHANGED <<argv, fs, i, writes, rwVars>>

\* if not os.path.exists(filepath): print warning; continue
SkipMissing ==
    /\ pc = "loop"
    /\ i <= Len(argv)
    /\ ~fs[argv[i]].exists
    /\ stdout' = Append(stdout, Status("Warning", argv[i]))
    /\ i' = i + 1
    /\ UNCHANGED <<argv, fs, writes, exitcode, pc, rwVars>>

\* a loop that writes every file back
ShouldWriteAlways(fixedText, original) == TRUE

\* if fixed != original
ShouldWrite(fixedText, original) == fixedText # original

\* read, rewrite, compare, write back when changed, report
ProcessFile ==
    /\ pc = "loop"
    /\ i <= Len(argv)
    /\ fs[argv[i]].exists
    /\ LET filepath == argv[i]
           original == fs[filepath].text
           fixedText == fix_bracket_syntax(original)
       IN IF ShouldWrite(fixedText, original)
          THEN /\ fs' = [fs EXCEPT ![filepath] = File(fixedText)]
               /\ writes' = Append(writes, filepath)
               /\ stdout' = Append(stdout, Status("Fixed", filepath))
          ELSE /\ stdout' = Append(stdout, Status("No changes", filepath))
               /\ UNCHANGED <<fs, writes>>
    /\ i' = i + 1
    /\ UNCHANGED <<argv, exitcode, pc, rwVars>>

\* the loop is exhausted and main returns
Finish ==
    /\ pc = "loop"
    /\ i > Len(argv)
    /\ exitcode' = 0
    /\ pc' = "exited"
    /\ UNCHANGED <<argv, fs, i, stdout, writes, rwVars>>

Next == Usage \/ EnterLoop \/ SkipMissing \/ ProcessFile \/ Finish

Spec == Init /\ [][Next]_vars

(***************************************************************************)
(* Properties.                                                             *)
(***************************************************************************)
HasChar(s, c) == \E k \in 1..Len(s) : s[k] = c
NoBrackets(s) == ~HasChar(s, "[") /\ ~HasChar(s, "]")
IsPlainIdent(c) ==
    /\ Len(c) >= 1
    /\ c[1] \in IdentStart
    /\ \A k \in 1..Len(c) : c[k] \in IdentChar
HasOp(c) == \E k \in 1..Len(c) : c[k] \in OpChar
\* an operator that is neither the first nor the last character
HasMiddleOp(c) == \E k \in 2..(Len(c) - 1) : c[k] \in OpChar
EndsWith(s, t) ==
    Len(s) >= Len(t) /\ SubSeq(s, Len(s) - Len(t) + 1, Len(s)) = t

\* the line is 'M R, [C]' (kind "load") or 'M [C], R' (kind "store"), single spaces
IsConstruct(d, kind) ==
    /\ d.kind = kind
    /\ d.w1 = SP
    /\ d.w2 = SP
    /\ d.o = <<"[">>
    /\ d.cl = <<"]">>

\* the input is one line and fix_bracket_syntax has been applied to it once
OneLineDone == phase = "rewritten" /\ Len(lines) = 1

Paren(c) == <<"(">> \o c \o <<")">>
CommaSp == <<",", " ">>

\* C1: a text without '[' is returned unchanged, be it an input or the output
\* of a first rewrite that is rewritten a second time.
C1_NoBracketIdentity ==
    (phase \in {"rewritten", "rerun"} /\ ~HasChar(content, "["))
        => fixed = content

\* a first rewrite removed the brackets and the second rewrite changed nothing
C1_Witness ==
    /\ phase = "rerun"
    /\ HasChar(Join(lines), "[")
    /\ ~HasChar(content, "[")
    /\ content # Join(lines)
    /\ fixed = content

Normalized(m) == IF m = LD THEN LDA ELSE m

\* C4: a store 'M [C], R' matched by rule 3 (C a plain identifier) or rule 4
\* (C an expression) is emitted with the mnemonic 'LDA' plus the byte/word
\* qualifier of M only, operands in order: 'LD [dest], CD' gives
\* 'LDA dest, CD' and 'LDAW [buf + 2], EF' gives 'LDAW (buf + 2), EF'.
C4_StoreNormalizesMnemonic ==
    (OneLineDone /\ IsConstruct(lines[1], "store") /\ lines[1].m \in Mnemonics
        /\ NoBrackets(lines[1].c)
        /\ (IsPlainIdent(lines[1].c) \/ HasMiddleOp(lines[1].c)))
        => fixed = Normalized(lines[1].m) \o SP
                   \o (IF IsPlainIdent(lines[1].c) THEN lines[1].c ELSE Paren(lines[1].c))
                   \o CommaSp \o lines[1].r

\* C5: for every M of LD, LDA, LDAB, LDAW, 'M R, [I]' with I a plain identifier
\* is rewritten to a text without the brackets around I.
C5_SimpleLoadWholeFamily ==
    (OneLineDone /\ IsConstruct(lines[1], "load") /\ lines[1].m \in Mnemonics
        /\ IsPlainIdent(lines[1].c))
        => /\ NoBrackets(fixed)
           /\ EndsWith(fixed, CommaSp \o lines[1].c)

\* C6: one load or store whose bracket content has neither '+' nor '-' and is
\* not a plain identifier is matched by no rule and returned unchanged.
C6_OtherContentUntouched ==
    (OneLineDone
        /\ (IsConstruct(lines[1], "load") \/ IsConstruct(lines[1], "store"))
        /\ NoBrackets(lines[1].c)
        /\ ~HasOp(lines[1].c)
        /\ ~IsPlainIdent(lines[1].c))
        => /\ fixed = content
           /\ \A rule \in 1..4 : \A j \in 1..Len(content) : ~Match(rule, content, j).ok

\* 'LD AB, [4]', a digit where an identifier must start, comes back as it was
C6_Witness ==
    /\ OneLineDone
    /\ lines[1] = Load(LD, AB, <<"4">>)
    /\ fixed = content
    /\ HasChar(fixed, "[")

\* the brackets of the line have been replaced by parentheses around C: the
\* output is a bracket-free mnemonic followed by the operands with '(C)'
ParenOperands(d) ==
    IF d.kind = "load"
    THEN SP \o d.r \o CommaSp \o Paren(d.c)
    ELSE SP \o Paren(d.c) \o CommaSp \o d.r
Parenthesized(d, out) ==
    /\ EndsWith(out, ParenOperands(d))
    /\ NoBrackets(SubSeq(out, 1, Len(out) - Len(ParenOperands(d))))

\* C7 as stated: with M = LD, every non-empty content without ']' that holds a
\* '+' or '-' anywhere (a leading or trailing one too) is parenthesized.
C7_AsStated ==
    (OneLineDone
        /\ (IsConstruct(lines[1], "load") \/ IsConstruct(lines[1], "store"))
        /\ lines[1].m = LD
        /\ Len(lines[1].c) >= 1
        /\ ~HasChar(lines[1].c, "]")
        /\ HasOp(lines[1].c))
        => Parenthesized(lines[1], fixed)

\* C7: with M = LD, every content without '[' or ']' that holds a '+' or '-'
\* with at least one character before it and one after it is parenthesized.
C7_InnerOperatorParenthesized ==
    (OneLineDone
        /\ (IsConstruct(lines[1], "load") \/ IsConstruct(lines[1], "store"))
        /\ lines[1].m = LD
        /\ NoBrackets(lines[1].c)
        /\ HasMiddleOp(lines[1].c))
        => Parenthesized(lines[1], fixed)

\* 'LD [a-4], LD' has become 'LDALD (a-4), LD'
C7_Witness ==
    /\ OneLineDone
    /\ lines[1] = Store(LD, <<"a", "-", "4">>, LD)
    /\ fixed = LDA \o LD \o SP \o Paren(<<"a", "-", "4">>) \o CommaSp \o LD

\* the line is bracket-free, or is exactly one construct that one of the four
\* rules matches from its first to its last character
WholeLineMatch(t) ==
    \E rule \in 1..4 :
        LET m == Match(rule, t, 1) IN m.ok /\ m.end = Len(t) + 1
LineInScope(d) ==
    \/ NoBrackets(Render(d))
    \/ /\ d.kind \in {"load", "store"}
       /\ NoBrackets(d.c)
       /\ ~HasChar(Render(d), "\n")
       /\ WholeLineMatch(Render(d))

\* C8: for newline-separated lines that are each bracket-free or one matched
\* construct, rewriting the text equals joining the rewrites of its lines.
C8_LinewiseRewrite ==
    (phase = "rewritten" /\ \A k \in 1..Len(lines) : LineInScope(lines[k]))
        => fixed = JoinTexts([k \in 1..Len(lines) |->
                                fix_bracket_syntax(Render(lines[k]))])

\* three lines: two constructs, both rewritten, around a bracket-free line
C8_Witness ==
    /\ phase = "rewritten"
    /\ lines = <<Load(LD, AB, <<"a">>), Plain(LD), Store(LD, aPlus4, LD)>>
    /\ fixed = JoinTexts(<<LDA \o AB \o SP \o AB \o CommaSp \o <<"a">>,
                           LD,
                           LDA \o LD \o SP \o Paren(aPlus4) \o CommaSp \o LD>>)

Last(s) == s[Len(s)]

\* C9: for an existing path the file is opened for writing exactly when the
\* rewritten text differs from the text read; "Fixed" leaves the rewritten text
\* in the file, "No changes" leaves every file and the write log as they were;
\* one of the two is reported for the path.
C9_WriteIffChanged ==
    [][(pc = "loop" /\ i <= Len(argv) /\ fs[argv[i]].exists) =>
        LET p == argv[i]
            before == fs[p].text
            after == fix_bracket_syntax(before)
        IN /\ (writes' # writes) <=> (after # before)
           /\ stdout' = Append(stdout, Last(stdout'))
           /\ Last(stdout').path = p
           /\ Last(stdout').kind \in {"Fixed", "No changes"}
           /\ Last(stdout').kind = "Fixed" =>
                /\ writes' = Append(writes, p)
                /\ fs' = [fs EXCEPT ![p] = File(after)]
           /\ Last(stdout').kind = "No changes" =>
                /\ writes' = writes
                /\ fs' = fs]_vars

\* a finished run that reported one file fixed and another unchanged
C9_Witness ==
    /\ pc = "exited"
    /\ \E k \in 1..Len(stdout) : stdout[k].kind = "Fixed"
    /\ \E k \in 1..Len(stdout) : stdout[k].kind = "No changes"
    /\ Len(writes) = Cardinality({k \in 1..Len(stdout) : stdout[k].kind = "Fixed"})

\* C10: a missing path is warned about and skipped, no file created or
\* modified, and the loop goes on to the next path; a run with at least one
\* argument reports every path in order and ends with status 0.
C10_MissingSkipped ==
    /\ [][(pc = "loop" /\ i <= Len(argv) /\ ~fs[argv[i]].exists) =>
            /\ stdout' = Append(stdout, Status("Warning", argv[i]))
            /\ fs' = fs
            /\ writes' = writes
            /\ i' = i + 1
            /\ pc' = "loop"
            /\ exitcode' = -1]_vars
    /\ [](pc = "exited" /\ Len(argv) >= 1 =>
            /\ exitcode = 0
            /\ Len(stdout) = Len(argv)
            /\ \A k \in 1..Len(argv) : stdout[k].path = argv[k])

\* a finished run whose first path was missing and whose second was fixed
C10_Witness ==
    /\ pc = "exited"
    /\ exitcode = 0
    /\ Len(stdout) >= 2
    /\ stdout[1].kind = "Warning"
    /\ stdout[2].kind = "Fixed"
    /\ ~fs[argv[1]].exists

====
